---- MODULE Spec2Model ----
(***************************************************************************)
(* Model of opengw_analyzer.py: one run of analyze_opengw_log over an      *)
(* input file.  The regular expressions, the substring tests, the JSON     *)
(* decoding and the length test of the program are computed on the text    *)
(* itself, character by character.                                         *)
(***************************************************************************)
EXTENDS Integers, Sequences, FiniteSets, TLC

VARIABLES
    input,          \* what open() and json.load() find: "missing", "unreadable",
                    \* "invalid_json", "not_list" or "list"
    data,           \* the decoded array (empty unless input = "list")
    pc,             \* "start", "parse", "display", "done"
    i,              \* entries the parse loop has gone through
    blocks,         \* the list blocks
    j,              \* blocks the display loop has gone through
    out,            \* what has been printed
    origin,         \* origin[k]: the position in data of the entry of blocks[k]
    optimizations,  \* optimizations[k]: what generate_optimizations returned for blocks[k]
    events          \* the calls made so far, in order

vars == <<input, data, pc, i, blocks, j, out, origin, optimizations, events>>

(* ------------------------------------------------------------------ *)
(* Bounds of the model                                                 *)
(* ------------------------------------------------------------------ *)
MaxEntries == 3

(* ------------------------------------------------------------------ *)
(* Text                                                                *)
(* ------------------------------------------------------------------ *)
\* s[k - 1] of Python: the character at the 1-based position k
At(s, k) == SubSeq(s, k, k)

Upper == "ABCDEFGHIJKLMNOPQRSTUVWXYZ"

LowerAlpha == "abcdefghijklmnopqrstuvwxyz"

\* str.lower() on one character
LowerChar(c) ==
    IF \E k \in 1..26 : At(Upper, k) = c
    THEN At(LowerAlpha, CHOOSE k \in 1..26 : At(Upper, k) = c)
    ELSE c

\* needle occurs in hay at position p
MatchAt(hay, needle, p) ==
    /\ p >= 1
    /\ p + Len(needle) - 1 <= Len(hay)
    /\ \A k \in 1..Len(needle) : At(hay, p + k - 1) = At(needle, k)

\* Python's  needle in hay  for two strings
Contains(hay, needle) ==
    \E p \in 1..(Len(hay) - Len(needle) + 1) : MatchAt(hay, needle, p)

\* needle in hay.lower(): lower() maps each character on its own
LowerContains(hay, needle) ==
    \E p \in 1..(Len(hay) - Len(needle) + 1) :
        \A k \in 1..Len(needle) : LowerChar(At(hay, p + k - 1)) = At(needle, k)

\* smallest q >= p with At(s, q) = c, or 0 when there is none
IndexFrom(s, c, p) ==
    IF \E q \in p..Len(s) : At(s, q) = c
    THEN CHOOSE q \in p..Len(s) : At(s, q) = c /\ \A r \in p..(q - 1) : At(s, r) # c
    ELSE 0

(* ------------------------------------------------------------------ *)
(* identify_psp                                                        *)
(* ------------------------------------------------------------------ *)
MatchesStone(content) ==
    Contains(content, "STONE_ANTOM") \/ Contains(content, "STONE")

MatchesMundipagg(content) ==
    LowerContains(content, "mundipagg") \/ Contains(content, "MUNDIPAGG")

MatchesAlipay(content) ==
    \/ Contains(content, "ALIPW3BR")
    \/ LowerContains(content, "alipay")
    \/ Contains(content, "OPENAPIv2")

\* identify_psp with the Alipay test moved to the front of the chain
identify_psp_alipay_first(content) ==
    IF MatchesAlipay(content) THEN "Alipay"
    ELSE IF MatchesStone(content) THEN "Stone"
    ELSE IF MatchesMundipagg(content) THEN "Mundipagg"
    ELSE "Unknown"

identify_psp(content) ==
    IF MatchesStone(content) THEN "Stone"
    ELSE IF MatchesMundipagg(content) THEN "Mundipagg"
    ELSE IF MatchesAlipay(content) THEN "Alipay"
    ELSE "Unknown"

(* ------------------------------------------------------------------ *)
(* The two regular expressions of parse_log_entry                      *)
(* ------------------------------------------------------------------ *)
\* \[([^\]]+)\]\[([^\]]+)\]\[([^\]]+)\]  anchored at position p: a group runs
\* from the character after "[" up to the next "]" and must not be empty.
BracketAt(s, p) ==
    LET q == IndexFrom(s, "]", p + 1)
        r == IndexFrom(s, "]", q + 2)
        t == IndexFrom(s, "]", r + 2)
    IN  IF /\ p >= 1 /\ p <= Len(s) /\ At(s, p) = "["
           /\ q > p + 1
           /\ q + 1 <= Len(s) /\ At(s, q + 1) = "["
           /\ r > q + 2
           /\ r + 1 <= Len(s) /\ At(s, r + 1) = "["
           /\ t > r + 2
        THEN [ok |-> TRUE,
              protocol |-> SubSeq(s, p + 1, q - 1),
              api |-> SubSeq(s, q + 2, r - 1),
              direction |-> SubSeq(s, r + 2, t - 1)]
        ELSE [ok |-> FALSE, protocol |-> "", api |-> "", direction |-> ""]

\* re.search: the leftmost position where the pattern matches
message_match(content) ==
    IF \E p \in 1..Len(content) : BracketAt(content, p).ok
    THEN BracketAt(content,
                   CHOOSE p \in 1..Len(content) :
                       /\ BracketAt(content, p).ok
                       /\ \A p2 \in 1..(p - 1) : ~BracketAt(content, p2).ok)
    ELSE BracketAt(content, 0)

EnvelopeMarker == "MESSAGE_ENVELOPE_CONTENT]["

\* the positions u of a "}" closing the group ({.*}) opened at b: "." does
\* not match a newline, and "]" must follow
EnvelopeEnds(s, b) ==
    { u \in (b + 1)..(Len(s) - 1) :
        /\ At(s, u) = "}"
        /\ At(s, u + 1) = "]"
        /\ \A k \in (b + 1)..(u - 1) : At(s, k) # "\n" }

EnvelopeAt(s, p) ==
    LET b == p + Len(EnvelopeMarker)
    IN  /\ MatchAt(s, EnvelopeMarker, p)
        /\ b <= Len(s) /\ At(s, b) = "{"
        /\ EnvelopeEnds(s, b) # {}

Max(S) == CHOOSE x \in S : \A y \in S : y <= x

\* MESSAGE_ENVELOPE_CONTENT\]\[({.*})\]  : leftmost match, ".*" greedy;
\* the result is group(1), or found = FALSE
json_match(content) ==
    IF \E p \in 1..Len(content) : EnvelopeAt(content, p)
    THEN LET p == CHOOSE p1 \in 1..Len(content) :
                      /\ EnvelopeAt(content, p1)
                      /\ \A p2 \in 1..(p1 - 1) : ~EnvelopeAt(content, p2)
             b == p + Len(EnvelopeMarker)
         IN  [found |-> TRUE, group |-> SubSeq(content, b, Max(EnvelopeEnds(content, b)))]
    ELSE [found |-> FALSE, group |-> ""]

(* ------------------------------------------------------------------ *)
(* JSON values and json.loads                                          *)
(* A value is a record: t is its type, n its number (or 0/1 for a      *)
(* bool), s its characters, kv its members in text order.              *)
(* ------------------------------------------------------------------ *)
JNull == [t |-> "null", n |-> 0, s |-> "", kv |-> <<>>]

JBool(b) == [t |-> "bool", n |-> IF b THEN 1 ELSE 0, s |-> "", kv |-> <<>>]

JNum(x) == [t |-> "num", n |-> x, s |-> "", kv |-> <<>>]

JStr(cs) == [t |-> "str", n |-> 0, s |-> cs, kv |-> <<>>]

JObj(members) == [t |-> "obj", n |-> 0, s |-> "", kv |-> members]

\* the outcome of a failed json.loads (JSONDecodeError), and of dict.get on
\* a missing key (None), which the program never tells from JSON null
JError == [t |-> "error", n |-> 0, s |-> "", kv |-> <<>>]

None == JNull

\* key in d, for a dict d
HasKey(d, key) == \E k \in 1..Len(d.kv) : d.kv[k].k = key

\* d[key]: json.loads keeps the last of several equal keys
Item(d, key) ==
    d.kv[CHOOSE k \in 1..Len(d.kv) :
            /\ d.kv[k].k = key
            /\ \A k2 \in (k + 1)..Len(d.kv) : d.kv[k2].k # key].v

\* d.get(key)
Get(d, key) == IF HasKey(d, key) THEN Item(d, key) ELSE None

Digits == "0123456789"

IsDigit(c) == \E d \in 1..10 : At(Digits, d) = c

DigitVal(c) == (CHOOSE d \in 1..10 : At(Digits, d) = c) - 1

SkipWs(s, p) ==
    IF \E q \in p..Len(s) : At(s, q) # " "
    THEN CHOOSE q \in p..Len(s) : At(s, q) # " " /\ \A r \in p..(q - 1) : At(s, r) = " "
    ELSE Len(s) + 1

\* the end of the JSON integer that starts at p: "0", or a run of digits
\* that does not start with "0"
NumEnd(s, p) ==
    IF At(s, p) = "0" THEN p
    ELSE Max({ q \in p..Len(s) : \A r \in p..q : IsDigit(At(s, r)) })

RECURSIVE NumVal(_, _, _)
NumVal(s, p, q) == IF q < p THEN 0 ELSE NumVal(s, p, q - 1) * 10 + DigitVal(At(s, q))

ParseFail == [ok |-> FALSE, v |-> JError, p |-> 0]

\* a string without escapes: from the quote at p to the next quote
\* (json rejects a raw control character in a string)
ParseString(s, p) ==
    LET q == IndexFrom(s, "\"", p + 1)
    IN  IF p <= Len(s) /\ At(s, p) = "\"" /\ q # 0
           /\ \A k \in (p + 1)..(q - 1) : At(s, k) # "\n" /\ At(s, k) # "\\"
        THEN [ok |-> TRUE, v |-> JStr(SubSeq(s, p + 1, q - 1)), p |-> q + 1]
        ELSE ParseFail

RECURSIVE ParseValue(_, _)
RECURSIVE ParseMembers(_, _, _)
\* the JSON value that starts at or after p (objects, strings, integers,
\* true, false, null; blanks between tokens)
ParseValue(s, p0) ==
    LET p == SkipWs(s, p0)
    IN  IF p > Len(s) THEN ParseFail
        ELSE IF At(s, p) = "{"
             THEN LET q == SkipWs(s, p + 1)
                  IN  IF q <= Len(s) /\ At(s, q) = "}"
                      THEN [ok |-> TRUE, v |-> JObj(<<>>), p |-> q + 1]
                      ELSE ParseMembers(s, q, <<>>)
        ELSE IF At(s, p) = "\"" THEN ParseString(s, p)
        ELSE IF MatchAt(s, "true", p) THEN [ok |-> TRUE, v |-> JBool(TRUE), p |-> p + 4]
        ELSE IF MatchAt(s, "false", p) THEN [ok |-> TRUE, v |-> JBool(FALSE), p |-> p + 5]
        ELSE IF MatchAt(s, "null", p) THEN [ok |-> TRUE, v |-> JNull, p |-> p + 4]
        ELSE IF IsDigit(At(s, p))
             THEN LET q == NumEnd(s, p)
                  IN  [ok |-> TRUE, v |-> JNum(NumVal(s, p, q)), p |-> q + 1]
        ELSE ParseFail

\* the members of an object from the key at p on, up to its "}"
ParseMembers(s, p, acc) ==
    LET key == ParseString(s, p)
        c == SkipWs(s, key.p)
    IN  IF ~key.ok \/ c > Len(s) \/ At(s, c) # ":" THEN ParseFail
        ELSE LET val == ParseValue(s, c + 1)
                 e == SkipWs(s, val.p)
                 acc2 == Append(acc, [k |-> key.v.s, v |-> val.v])
             IN  IF ~val.ok \/ e > Len(s) THEN ParseFail
                 ELSE IF At(s, e) = "}" THEN [ok |-> TRUE, v |-> JObj(acc2), p |-> e + 1]
                 ELSE IF At(s, e) = "," THEN ParseMembers(s, SkipWs(s, e + 1), acc2)
                 ELSE ParseFail

\* json.loads(text): the value, or JError for JSONDecodeError (also when
\* text follows the value)
json_loads(text) ==
    LET r == ParseValue(text, 1)
    IN  IF r.ok /\ SkipWs(text, r.p) > Len(text) THEN r.v ELSE JError

(* ------------------------------------------------------------------ *)
(* Python operators on decoded values                                  *)
(* ------------------------------------------------------------------ *)
\* bool(v)
Truthy(v) ==
    IF v.t = "obj" THEN Len(v.kv) > 0
    ELSE IF v.t = "str" THEN Len(v.s) > 0
    ELSE IF v.t \in {"num", "bool"} THEN v.n # 0
    ELSE FALSE

\* key in v  raises TypeError unless v is a dict or a string
InRaises(v) == v.t \notin {"obj", "str"}

\* key in v: a key of a dict, a substring of a string
In(key, v) == IF v.t = "obj" THEN HasKey(v, key) ELSE Contains(v.s, key)

\* v == False: Python compares bool and int by value, so 0 == False
EqFalse(v) == v.t \in {"bool", "num"} /\ v.n = 0

\* isinstance(v, str)
IsStr(v) == v.t = "str"

\* isinstance(v, dict)
IsDict(v) == v.t = "obj"

kContent == "content"

kTime == "__time__"

kPaymentAmount == "paymentAmount"

kPaymentMethod == "paymentMethod"

kMetaData == "paymentMethodMetaData"

k3DS == "is3DSAuthentication"

kCardNo == "cardNo"

kOrder == "order"

kOrderDescription == "orderDescription"

(* ------------------------------------------------------------------ *)
(* parse_log_entry                                                     *)
(* ------------------------------------------------------------------ *)
NoBlock ==
    [id |-> 0, psp |-> "", direction |-> "", api |-> "", protocol |-> "",
     json_data |-> None, timestamp |-> JStr(""), raw_content |-> ""]

\* json_data of a block: the decoded envelope, None when the pattern is not
\* found or the text does not decode
json_data_of(content) ==
    LET m == json_match(content)
        v == IF m.found THEN json_loads(m.group) ELSE JError
    IN  IF v = JError THEN None ELSE v

\* the fields of the block that parse_log_entry builds
make_block(entry, content, m, block_id) ==
    [id |-> block_id,
     psp |-> identify_psp(content),
     direction |-> m.direction,
     api |-> m.api,
     protocol |-> m.protocol,
     json_data |-> json_data_of(content),
     timestamp |-> IF HasKey(entry, kTime) THEN Item(entry, kTime) ELSE JStr(""),
     raw_content |-> content]

\* parse_log_entry without the early return on a failed match
parse_log_entry_no_return(entry, block_id) ==
    IF ~IsDict(entry) THEN [raised |-> TRUE, found |-> FALSE, block |-> NoBlock]
    ELSE LET content == IF HasKey(entry, kContent) THEN Item(entry, kContent) ELSE JStr("")
         IN  IF ~IsStr(content) THEN [raised |-> TRUE, found |-> FALSE, block |-> NoBlock]
             ELSE [raised |-> FALSE, found |-> TRUE,
                   block |-> make_block(entry, content.s, message_match(content.s), block_id)]

\* the outcome of parse_log_entry(entry, block_id): it raises, or returns
\* None (found = FALSE), or returns a block
parse_log_entry(entry, block_id) ==
    IF ~IsDict(entry) THEN [raised |-> TRUE, found |-> FALSE, block |-> NoBlock]
    ELSE LET content == IF HasKey(entry, kContent) THEN Item(entry, kContent) ELSE JStr("")
         IN  IF ~IsStr(content) THEN [raised |-> TRUE, found |-> FALSE, block |-> NoBlock]
             ELSE IF ~message_match(content.s).ok
                  THEN [raised |-> FALSE, found |-> FALSE, block |-> NoBlock]
             ELSE [raised |-> FALSE, found |-> TRUE,
                   block |-> make_block(entry, content.s, message_match(content.s), block_id)]

(* ------------------------------------------------------------------ *)
(* generate_optimizations                                              *)
(* ------------------------------------------------------------------ *)
Rec3DS == [title |-> "3D Secure Enhancement", impact |-> "30% fraud reduction", priority |-> "HIGH"]

RecCard == [title |-> "Card Number Masking", impact |-> "PCI DSS compliance", priority |-> "HIGH"]

RecPSP == [title |-> "PSP Routing Optimization", impact |-> "60% latency reduction", priority |-> "MEDIUM"]

RecSize == [title |-> "Payload Compression", impact |-> "25% faster processing", priority |-> "MEDIUM"]

SizeThreshold == 2048

Raised == [raised |-> TRUE, opts |-> <<>>]

Returned(opts) == [raised |-> FALSE, opts |-> opts]

\* the 3D Secure and card masking checks on a non-empty payload
metadata_optimizations(json_data) ==
    IF ~HasKey(json_data, kPaymentMethod) THEN Returned(<<>>)
    ELSE LET pm == Item(json_data, kPaymentMethod)
         IN  IF InRaises(pm) THEN Raised
             ELSE IF ~In(kMetaData, pm) THEN Returned(<<>>)
             ELSE IF ~IsDict(pm) THEN Raised
             ELSE LET meta == Item(pm, kMetaData)
                  IN  IF ~IsDict(meta) THEN Raised
                      ELSE LET o1 == IF EqFalse(Get(meta, k3DS)) THEN <<Rec3DS>> ELSE <<>>
                           IN  IF ~HasKey(meta, kCardNo) THEN Returned(o1)
                               ELSE IF InRaises(Item(meta, kCardNo)) THEN Raised
                               ELSE IF ~In("*", Item(meta, kCardNo))
                                    THEN Returned(Append(o1, RecCard))
                               ELSE Returned(o1)

\* the PSP and payload size checks
block_optimizations(block) ==
    (IF block.psp = "Stone" THEN <<RecPSP>> ELSE <<>>)
    \o (IF Len(block.raw_content) > SizeThreshold THEN <<RecSize>> ELSE <<>>)

\* generate_optimizations with the PSP and size checks ahead of the
\* metadata checks
generate_optimizations_psp_first(block) ==
    IF ~Truthy(block.json_data) THEN Returned(<<>>)
    ELSE LET o12 == metadata_optimizations(block.json_data)
         IN  IF o12.raised THEN Raised
             ELSE Returned(block_optimizations(block) \o o12.opts)

generate_optimizations(block) ==
    IF ~Truthy(block.json_data) THEN Returned(<<>>)
    ELSE LET o12 == metadata_optimizations(block.json_data)
         IN  IF o12.raised THEN Raised
             ELSE Returned(o12.opts \o block_optimizations(block))

(* ------------------------------------------------------------------ *)
(* display_block_analysis                                              *)
(* ------------------------------------------------------------------ *)
\* the transaction details part raises on a payload member of the wrong type
details_raise(json_data) ==
    \/ /\ HasKey(json_data, kPaymentAmount)
       /\ ~IsDict(Item(json_data, kPaymentAmount))
    \/ /\ HasKey(json_data, kPaymentMethod)
       /\ LET pm == Item(json_data, kPaymentMethod)
          IN  \/ InRaises(pm)
              \/ /\ In(kMetaData, pm)
                 /\ (~IsDict(pm) \/ ~IsDict(Item(pm, kMetaData)))
    \/ /\ HasKey(json_data, kOrder)
       /\ LET order == Item(json_data, kOrder)
          IN  \/ InRaises(order)
              \/ In(kOrderDescription, order) /\ ~IsDict(order)

\* the outcome of display_block_analysis(block): whether it raises, whether
\* generate_optimizations was called, and the recommendations it printed
\* (the timestamp lines 104-109 catch every error and never raise)
display_block_analysis(block) ==
    IF Truthy(block.json_data) /\ details_raise(block.json_data)
    THEN [raised |-> TRUE, evaluated |-> FALSE, opts |-> <<>>]
    ELSE LET g == generate_optimizations(block)
         IN  [raised |-> g.raised, evaluated |-> TRUE, opts |-> g.opts]

(* ------------------------------------------------------------------ *)
(* The inputs                                                          *)
(* ------------------------------------------------------------------ *)
Entry(content) == JObj(<<[k |-> kContent, v |-> JStr(content)]>>)

TimedEntry(content) ==
    JObj(<<[k |-> kContent, v |-> JStr(content)],
           [k |-> kTime, v |-> JStr("1594694911")]>>)

BracketParts ==
    { "[HTTP][PAY][OUTBOUND]",
      "[HTTP][PAY] OUTBOUND",
      "x[[A][B]][C][D][E]" }

PspParts ==
    { "",
      " STONE",
      " STONE OPENAPIv2",
      " STONE_ANTOM mundipagg",
      " Mundipagg AliPay",
      " MUNDIPAGG ALIPW3BR",
      " alipay",
      " OPENAPIv2",
      " stone" }

FlagTexts ==
    { "",
      "\"is3DSAuthentication\":false",
      "\"is3DSAuthentication\":true",
      "\"is3DSAuthentication\":0",
      "\"is3DSAuthentication\":1",
      "\"is3DSAuthentication\":null",
      "\"is3DSAuthentication\":\"false\"" }

CardTexts ==
    { "",
      "\"cardNo\":\"4111****1111\"",
      "\"cardNo\":\"4111111111111111\"",
      "\"cardNo\":4111" }

MetaText(flag, card) ==
    "{\"paymentMethod\":{\"paymentMethodMetaData\":{"
    \o flag \o (IF flag # "" /\ card # "" THEN "," ELSE "") \o card
    \o "}}}"

FullPayload == MetaText("\"is3DSAuthentication\":false", "\"cardNo\":\"4111111111111111\"")

MetaTexts == { MetaText(f, c) : f \in FlagTexts, c \in CardTexts }

OtherTexts ==
    { "{}",
      "{\"paymentMethod\":null}",
      "{\"paymentMethod\":{}}",
      "{\"paymentMethod\":{\"paymentMethodMetaData\":\"none\"}}",
      "{\"paymentMethod\":",
      "{\"paymentAmount\":{\"value\":10}, \"order\":{\"orderDescription\":\"x\"}}",
      "{\"order\":\"orderDescription\"}" }

Envelope(text) == " MESSAGE_ENVELOPE_CONTENT][" \o text \o "] end"

FewEnvelopes ==
    { "", Envelope("{}"), Envelope(FullPayload), Envelope("{\"paymentMethod\":") }

AllEnvelopes == {""} \cup { Envelope(t) : t \in MetaTexts \cup OtherTexts }

RECURSIVE Filler(_)
\* n characters
Filler(n) ==
    IF n <= 0 THEN ""
    ELSE IF n = 1 THEN "x"
    ELSE Filler(n \div 2) \o Filler(n - (n \div 2))

\* content made as long as n characters
PadTo(content, n) == content \o Filler(n - Len(content))

ShortContents ==
    { b \o p \o e : b \in BracketParts, p \in PspParts, e \in FewEnvelopes }
    \cup { "[HTTP][PAY][OUTBOUND]" \o p \o e :
             p \in {"", " STONE"}, e \in AllEnvelopes }

LongContents ==
    { PadTo("[HTTP][PAY][OUTBOUND]" \o p \o e \o " ", n) :
        p \in {"", " STONE"},
        e \in {"", Envelope("{}"), Envelope(FullPayload)},
        n \in {SizeThreshold, SizeThreshold + 1} }

GoodEntry == TimedEntry("[HTTP][PAY][OUTBOUND] STONE" \o Envelope(FullPayload))

\* the entries of the arrays of several entries
EntryPool ==
    { GoodEntry,
      JObj(<<[k |-> kTime, v |-> JStr("1594694911")]>>),
      Entry("no brackets alipay"),
      Entry("[A][B][C]" \o Envelope("{\"paymentMethod\":null}")),
      JNum(7) }

Arrays ==
    { <<Entry(c)>> : c \in ShortContents \cup LongContents }
    \cup UNION { [1..n -> EntryPool] : n \in 0..MaxEntries }

(* ------------------------------------------------------------------ *)
(* analyze_opengw_log                                                  *)
(* ------------------------------------------------------------------ *)
Line(kind, n, opts) == [kind |-> kind, n |-> n, opts |-> opts]

Event(op, entry) == [op |-> op, entry |-> entry]

\* every failure reported by the last except clause
ErrorLine_generic(kind) == Line("exception", 0, <<>>)

\* the message of each except clause, and of the isinstance check
ErrorLine(kind) ==
    IF kind = "missing" THEN Line("not_found", 0, <<>>)
    ELSE IF kind = "invalid_json" THEN Line("invalid_json", 0, <<>>)
    ELSE IF kind = "not_list" THEN Line("expected_array", 0, <<>>)
    ELSE Line("exception", 0, <<>>)

Init ==
    /\ input \in {"missing", "unreadable", "invalid_json", "not_list", "list"}
    /\ data \in (IF input = "list" THEN Arrays ELSE {<<>>})
    /\ pc = "start"
    /\ i = 0
    /\ blocks = <<>>
    /\ j = 0
    /\ out = <<>>
    /\ origin = <<>>
    /\ optimizations = <<>>
    /\ events = <<>>

\* lines 14-27: the banner, open and json.load, the isinstance check
Open ==
    /\ pc = "start"
    /\ IF input = "list"
       THEN /\ out' = <<Line("banner", 0, <<>>), Line("processing", Len(data), <<>>)>>
            /\ pc' = "parse"
       ELSE /\ out' = <<Line("banner", 0, <<>>), ErrorLine(input)>>
            /\ pc' = "done"
    /\ UNCHANGED <<input, data, i, blocks, j, origin, optimizations, events>>

\* enumerate counts from 0 and the block id passed on is i + 1
ordinal_zero_based(idx) == idx

ordinal(idx) == idx + 1

\* the parse loop with display_block_analysis called inside it
ParseStepStreaming ==
    /\ pc = "parse"
    /\ i < Len(data)
    /\ LET entry == data[i + 1]
       IN  IF InRaises(entry)
           THEN /\ out' = Append(out, ErrorLine("exception"))
                /\ pc' = "done"
                /\ UNCHANGED <<i, blocks, origin, events>>
           ELSE IF ~In(kContent, entry)
           THEN /\ i' = i + 1
                /\ UNCHANGED <<pc, out, blocks, origin, events>>
           ELSE LET r == parse_log_entry(entry, ordinal(i))
                IN  /\ events' = Append(events, Event("parse", i + 1))
                              \o (IF ~r.raised /\ r.found
                                  THEN <<Event("evaluate", i + 1), Event("report", i + 1)>>
                                  ELSE <<>>)
                    /\ IF r.raised
                       THEN /\ out' = Append(out, ErrorLine("exception"))
                            /\ pc' = "done"
                            /\ UNCHANGED <<i, blocks, origin>>
                       ELSE /\ i' = i + 1
                            /\ blocks' = IF r.found THEN Append(blocks, r.block) ELSE blocks
                            /\ origin' = IF r.found THEN Append(origin, i + 1) ELSE origin
                            /\ UNCHANGED <<pc, out>>
    /\ UNCHANGED <<input, data, j, optimizations>>

\* lines 30-34: one iteration of the parse loop;  'content' in entry  raises
\* for an entry that is no dict and no string
ParseStep ==
    /\ pc = "parse"
    /\ i < Len(data)
    /\ LET entry == data[i + 1]
       IN  IF InRaises(entry)
           THEN /\ out' = Append(out, ErrorLine("exception"))
                /\ pc' = "done"
                /\ UNCHANGED <<i, blocks, origin, events>>
           ELSE IF ~In(kContent, entry)
           THEN /\ i' = i + 1
                /\ UNCHANGED <<pc, out, blocks, origin, events>>
           ELSE LET r == parse_log_entry(entry, ordinal(i))
                IN  /\ events' = Append(events, Event("parse", i + 1))
                    /\ IF r.raised
                       THEN /\ out' = Append(out, ErrorLine("exception"))
                            /\ pc' = "done"
                            /\ UNCHANGED <<i, blocks, origin>>
                       ELSE /\ i' = i + 1
                            /\ blocks' = IF r.found THEN Append(blocks, r.block) ELSE blocks
                            /\ origin' = IF r.found THEN Append(origin, i + 1) ELSE origin
                            /\ UNCHANGED <<pc, out>>
    /\ UNCHANGED <<input, data, j, optimizations>>

\* lines 36-37: the loop is over, the summary is printed
EndParse ==
    /\ pc = "parse"
    /\ i = Len(data)
    /\ out' = Append(out, Line("summary", Len(blocks), <<>>))
    /\ pc' = "display"
    /\ UNCHANGED <<input, data, i, blocks, j, origin, optimizations, events>>

\* lines 40-41: display_block_analysis of the next block
DisplayStep ==
    /\ pc = "display"
    /\ j < Len(blocks)
    /\ LET block == blocks[j + 1]
           d == display_block_analysis(block)
       IN  /\ events' = events
                 \o (IF d.evaluated THEN <<Event("evaluate", origin[j + 1])>> ELSE <<>>)
                 \o (IF d.raised THEN <<>> ELSE <<Event("report", origin[j + 1])>>)
           /\ IF d.raised
              THEN /\ out' = out \o <<Line("section_cut", block.id, <<>>), ErrorLine("exception")>>
                   /\ pc' = "done"
                   /\ UNCHANGED <<j, optimizations>>
              ELSE /\ out' = Append(out, Line("section", block.id, d.opts))
                   /\ optimizations' = Append(optimizations, d.opts)
                   /\ j' = j + 1
                   /\ UNCHANGED pc
    /\ UNCHANGED <<input, data, i, blocks, origin>>

\* the display loop is over and analyze_opengw_log returns
Finish ==
    /\ pc = "display"
    /\ j = Len(blocks)
    /\ pc' = "done"
    /\ UNCHANGED <<input, data, i, blocks, j, out, origin, optimizations, events>>

Next == Open \/ ParseStep \/ EndParse \/ DisplayStep \/ Finish

Spec == Init /\ [][Next]_vars

(* ------------------------------------------------------------------ *)
(* Properties                                                          *)
(* ------------------------------------------------------------------ *)
\* the entry at position e of data has a content field (line 31)
HasContent(e) == ~InRaises(data[e]) /\ In(kContent, data[e])

\* the entry at position e is a record whose content, if any, is a string
IsRecord(e) ==
    /\ IsDict(data[e])
    /\ HasKey(data[e], kContent) => IsStr(Item(data[e], kContent))

\* the entry at position e has a content with the three-bracket pattern
Matches(e) ==
    /\ IsRecord(e)
    /\ HasKey(data[e], kContent)
    /\ message_match(Item(data[e], kContent).s).ok

\* rec is one of the recommendations of the sequence opts
Emits(opts, rec) == \E k \in 1..Len(opts) : opts[k] = rec

\* the place of a recommendation in the declaration order of the rules
RuleOf(rec) ==
    IF rec = Rec3DS THEN 1
    ELSE IF rec = RecCard THEN 2
    ELSE IF rec = RecPSP THEN 3
    ELSE IF rec = RecSize THEN 4
    ELSE 0

\* C1 as stated: every block's id is the 1-based position of its source
\* entry among the entries that have a content field.
C1_IdAmongContentEntries ==
    \A k \in 1..Len(blocks) :
        blocks[k].id = Cardinality({ e \in 1..origin[k] : HasContent(e) })

\* C1 amended: every block's id is the 1-based position of its source entry
\* among all raw entries of the array.
C1_IdIsPositionInArray ==
    \A k \in 1..Len(blocks) : blocks[k].id = origin[k]

\* a block whose entry comes after an entry without content
C1_Witness ==
    \E k \in 1..Len(blocks) :
        /\ blocks[k].id = origin[k]
        /\ \E e \in 1..(origin[k] - 1) : ~HasContent(e)

\* C2 as stated: the PSP routing recommendation is emitted for a block iff
\* its psp is Stone, whether or not it has a payload.
C2_StoneAlwaysRouted ==
    \A k \in 1..Len(optimizations) :
        Emits(optimizations[k], RecPSP) <=> blocks[k].psp = "Stone"

\* C3 as stated: the compression recommendation is emitted for a block iff
\* its raw content is longer than 2048 characters, whatever the payload.
C3_SizeRuleOnRawContentOnly ==
    \A k \in 1..Len(optimizations) :
        Emits(optimizations[k], RecSize) <=> Len(blocks[k].raw_content) > SizeThreshold

\* C4 as stated: over an array of records, no per-entry problem ends the
\* run: no exception is reported and every entry whose content has the
\* bracket pattern has its block reported.
C4_EntryProblemsNeverFatal ==
    (input = "list" /\ pc = "done" /\ \A e \in 1..Len(data) : IsRecord(e))
    => /\ \A p \in 1..Len(out) : out[p].kind \notin {"exception", "section_cut"}
       /\ \A e \in 1..Len(data) :
              Matches(e) => \E p \in 1..Len(out) : out[p].kind = "section" /\ out[p].n = e

\* C5 as stated: once the array is parsed, the number of blocks is the
\* number of entries minus the number of entries lacking content.
C5_OnlyMissingContentDrops ==
    (input = "list" /\ pc \in {"display", "done"} /\ i = Len(data))
    => Len(blocks) = Len(data) - Cardinality({ e \in 1..Len(data) : ~HasContent(e) })

\* C5 amended: when the parse loop has gone through i entries, the number
\* of blocks is i minus the number of those entries lacking content minus
\* the number of those whose content has no three-bracket pattern, and no
\* entry lacking content has a block.
C5_BlockCount ==
    /\ Len(blocks) = i - Cardinality({ e \in 1..i : ~HasContent(e) })
                       - Cardinality({ e \in 1..i : HasContent(e) /\ ~Matches(e) })
    /\ \A k \in 1..Len(blocks) : HasContent(origin[k])

\* a parsed array with an entry of each kind
C5_Witness ==
    /\ pc = "done"
    /\ i = Len(data)
    /\ Len(blocks) >= 1
    /\ \E e \in 1..i : ~HasContent(e)
    /\ \E e \in 1..i : HasContent(e) /\ ~Matches(e)

\* C6 as stated: when an entry is parsed, the block of every earlier entry
\* has already been reported.
C6_ReportBeforeNextParse ==
    \A p \in 1..Len(events) :
        events[p].op = "parse" =>
            \A k \in 1..Len(blocks) :
                origin[k] < events[p].entry =>
                    \E q \in 1..(p - 1) : events[q] = Event("report", origin[k])

\* C6 amended: every entry is parsed before any block is evaluated or
\* reported; the blocks are then evaluated and reported one at a time in
\* input order, each block's evaluation followed by its report before the
\* next block's evaluation.
C6_ParseAllThenDisplayInOrder ==
    /\ \A p \in 1..Len(events) : \A q \in (p + 1)..Len(events) :
           events[q].op = "parse" =>
               events[p].op = "parse" /\ events[p].entry < events[q].entry
    /\ (\E p \in 1..Len(events) : events[p].op # "parse") => i = Len(data)
    /\ \A p \in 1..Len(events) :
           /\ events[p].op = "report" =>
                  p > 1 /\ events[p - 1] = Event("evaluate", events[p].entry)
           /\ (events[p].op = "evaluate" /\ p > 1 /\ events[p - 1].op # "parse") =>
                  events[p - 1].op = "report" /\ events[p - 1].entry < events[p].entry

\* two blocks parsed, then both displayed
C6_Witness ==
    /\ Len(blocks) >= 2
    /\ j = Len(blocks)
    /\ events[Len(events)] = Event("report", origin[Len(blocks)])

\* C7: the recommendations of a block are in the declaration order of the
\* rules (3DS, card masking, PSP routing, compression), each at most once.
C7_DeclarationOrder ==
    \A k \in 1..Len(optimizations) :
        /\ \A a \in 1..Len(optimizations[k]) : RuleOf(optimizations[k][a]) \in 1..4
        /\ \A a \in 1..Len(optimizations[k]) : \A b \in (a + 1)..Len(optimizations[k]) :
               RuleOf(optimizations[k][a]) < RuleOf(optimizations[k][b])

\* a block for which the four rules fire
C7_Witness ==
    \E k \in 1..Len(optimizations) : optimizations[k] = <<Rec3DS, RecCard, RecPSP, RecSize>>

\* C8: the psp of a block is the first of Stone, Mundipagg, Alipay whose
\* signature its content matches, and Unknown when it matches none.
C8_FirstMatchWins ==
    \A k \in 1..Len(blocks) :
        LET c == blocks[k].raw_content
        IN  /\ MatchesStone(c) => blocks[k].psp = "Stone"
            /\ (~MatchesStone(c) /\ MatchesMundipagg(c)) => blocks[k].psp = "Mundipagg"
            /\ (~MatchesStone(c) /\ ~MatchesMundipagg(c) /\ MatchesAlipay(c)) =>
                   blocks[k].psp = "Alipay"
            /\ (~MatchesStone(c) /\ ~MatchesMundipagg(c) /\ ~MatchesAlipay(c)) =>
                   blocks[k].psp = "Unknown"

\* a block whose content matches the Stone and the Alipay signatures
C8_Witness ==
    \E k \in 1..Len(blocks) :
        /\ MatchesStone(blocks[k].raw_content)
        /\ MatchesAlipay(blocks[k].raw_content)
        /\ blocks[k].psp = "Stone"

\* C9 as stated: for a block whose payload has the metadata section, the
\* 3D Secure recommendation is emitted iff the flag is present and is the
\* boolean false.
C9_OnlyLiteralFalse ==
    \A k \in 1..Len(optimizations) :
        LET jd == blocks[k].json_data
        IN  (/\ IsDict(jd) /\ HasKey(jd, kPaymentMethod)
             /\ IsDict(Item(jd, kPaymentMethod))
             /\ HasKey(Item(jd, kPaymentMethod), kMetaData)
             /\ IsDict(Item(Item(jd, kPaymentMethod), kMetaData)))
            => LET meta == Item(Item(jd, kPaymentMethod), kMetaData)
               IN  Emits(optimizations[k], Rec3DS)
                   <=> (HasKey(meta, k3DS) /\ Item(meta, k3DS) = JBool(FALSE))

\* C10: a missing file, a file that is not JSON and a top-level value that
\* is no array each end the run with their own message right after the
\* banner, with no processing line, summary or block section.
C10_FatalInputErrors ==
    input \in {"missing", "invalid_json", "not_list"} =>
        /\ pc \in {"start", "done"}
        /\ pc = "done" =>
               /\ Len(out) = 2
               /\ out[1].kind = "banner"
               /\ input = "missing" => out[2].kind = "not_found"
               /\ input = "invalid_json" => out[2].kind = "invalid_json"
               /\ input = "not_list" => out[2].kind = "expected_array"
               /\ ~ENABLED Next

\* the run over a top-level value that is no array has ended
C10_Witness ==
    /\ input = "not_list"
    /\ pc = "done"
    /\ out[2].kind = "expected_array"

====
